---- MODULE Spec2Model ----
(***************************************************************************)
(* A model of gdb-heapanalyzer's per-inferior analyzer lifecycle:          *)
(*   heap/__init__.py   AnalyzerState (registry, detect_heap,              *)
(*                      on_inferior_change)                                *)
(*   heap/_heap.py      BaseHeapAnalyzer (validity flag), UnsupportedHeap  *)
(*   heap/commands.py   the "heap", "heap info", "heap analyze" commands   *)
(*   heap/glibc         the glibc analyzer's commands                      *)
(*   heap/_gdb.py       watch_active_inferior, _GDBHook and the emulated   *)
(*                      gdb.events.cont registry                           *)
(*                                                                         *)
(* Two threads: GDB's main thread, which runs the user's commands and the  *)
(* callables handed to gdb.post_event, and the daemon thread that runs     *)
(* watch_active_inferior.  A command runs to completion on the main        *)
(* thread; check_for_change is modelled statement by statement because the *)
(* watcher thread reads event_finished while it runs.                      *)
(***************************************************************************)
EXTENDS Integers, Sequences, FiniteSets, TLC

\* ---------------------------------------------------------------- bounds

\* Inferiors the host can ever create (gdb numbers them 1, 2, ...).
MaxInferiors == 2

\* Length of the detector chain _heap_detectors.  The repository configures
\* one detector (detect_glibc_heap); the loop of detect_heap is written for
\* any chain, and is modelled for a chain of this many detectors that obey
\* the detector contract (return an analyzer, raise HeapDetectionError, or
\* raise WrongHeapVersionError).
NumDetectors == 2

\* How many connects gdb.events.cont takes from direct callers.
MaxConnects == 3

Inferiors == 1 .. MaxInferiors

heap_detectors == [d \in 1 .. NumDetectors |-> d]

\* What a detector call can do.
NormalOutcomes == {"Analyzer", "HeapDetectionError", "WrongHeapVersionError"}

\* ------------------------------------------------------------------ state

VARIABLES
    inferiors,                 \* host: gdb.inferiors(), the live inferiors
    selected,                  \* host: gdb.selected_inferior()
    inferior_to_analyzer_map,  \* AnalyzerState.inferior_to_analyzer_map
    _is_valid,                 \* BaseHeapAnalyzer._is_valid, per analyzer
    commands,                  \* host: the registered "heap ..." commands
    hook_callbacks,            \* _GDBHook.callbacks, per hooked command
    callables_to_callbacks,    \* _ContinueEventRegistry._callables_to_callbacks
    w_pc,                      \* watcher thread: position in watch_active_inferior
    last_inferior,             \* watch_active_inferior: last_inferior[0]
    event_finished,            \* watch_active_inferior: event_finished[0]
    stop_event,                \* watch_active_inferior: the stop_event argument
    posted,                    \* host: check_for_change events queued by post_event
    m_pc,                      \* main thread: idle, or position in check_for_change
    current_inferior,          \* check_for_change: current_inferior / new_inferior
    debuginfo_loaded,          \* host: "info sharedlibrary" shows libc with symbols read
    debuginfo_cache,           \* requires_debuginfo: debuginfo_cache, per decorated invoke
    out                        \* what the last step did and returned

vars == << inferiors, selected, inferior_to_analyzer_map, _is_valid, commands,
           hook_callbacks, callables_to_callbacks, w_pc, last_inferior,
           event_finished, stop_event, posted, m_pc, current_inferior,
           debuginfo_loaded, debuginfo_cache, out >>

hostVars    == << inferiors, selected >>
eventVars   == << hook_callbacks, callables_to_callbacks >>
watcherVars == << w_pc, last_inferior, event_finished, stop_event >>
gateVars    == << debuginfo_loaded, debuginfo_cache >>

\* ------------------------------------------------------------ slot values

\* What inferior_to_analyzer_map holds for an inferior: no key, None, the
\* UnsupportedHeap singleton, or the analyzer object built for the inferior
\* (detect_heap builds at most one per inferior, so the inferior names it).
NoKey           == "NoKey"
None            == "None"
UnsupportedHeap == "UnsupportedHeap"
Analyzer        == "Analyzer"

\* dict.setdefault(key, None)
SetDefaultAssign(map, key) == [map EXCEPT ![key] = None]
SetDefaultUnsupported(map, key) ==
    IF map[key] \in {NoKey, None} THEN [map EXCEPT ![key] = UnsupportedHeap] ELSE map
SetDefault(map, key) ==
    IF map[key] = NoKey THEN [map EXCEPT ![key] = None] ELSE map

\* ------------------------------------------------------- command registry

\* A registered command is <<name, owner>>: owner BASIC is the AnalyzerState
\* the basic commands hold, owner t >= 1 is the analyzer of inferior t that an
\* AnalyzerCommandBase holds in self.analyzer.
BASIC == 0

\* gdb.Command.__init__ under CommandBase.__init__: a command registered
\* under a name replaces the command of that name.
Register(cmds, name, owner) ==
    {c \in cmds : c[1] # name} \cup {<< name, owner >>}

\* PrefixCommandBase.__init__: gdb gives a newly registered prefix command an
\* empty sub-command list, so registering the prefix again drops every
\* "heap <sub>" command registered before.
RegisterPrefixKeepSubs(cmds, name) == Register(cmds, name, BASIC)
RegisterPrefix(cmds, name) == {<< name, BASIC >>}

\* commands.activate_basic_commands
activate_basic_commands(cmds) ==
    Register(Register(RegisterPrefix(cmds, "heap"),
                      "heap info", BASIC),
             "heap analyze", BASIC)

\* BaseGlibcHeapAnalyzer.activate_commands, for the analyzer of inferior t
activate_commands(cmds, t) ==
    Register(Register(cmds, "heap arenas", t), "heap details", t)

BaseCommands == activate_basic_commands({})
VerbsOf(t)   == activate_commands({}, t)

\* The allocator-specific commands now registered.
ActiveAllocatorVerbs == {c \in commands : c[2] # BASIC}

\* --------------------------------------------------- event emulation layer

\* _ContinueEventRegistry.__init__: continue_events
continue_events ==
    << "advance", "continue", "finish", "jump", "next", "nexti",
       "reverse-continue", "reverse-finish", "reverse-next", "reverse-nexti",
       "reverse-step", "reverse-stepi", "step", "stepi", "until" >>

ContinueEventSet == {continue_events[i] : i \in 1 .. Len(continue_events)}

\* The commands get_hook is called for: those of continue_events and, through
\* the "hook" command, any other command name the user gives.
HookableCommands == ContinueEventSet \cup {"run"}

\* _GDBHook._hook_registry: the commands that have a hook object.
hook_registry == DOMAIN hook_callbacks

\* How often `callable` is called when the hook of `hook` runs its callbacks.
Count(callable, hook) ==
    Cardinality({i \in 1 .. Len(hook_callbacks[hook]) :
                    hook_callbacks[hook][i][1] = callable})

\* A callback is the closure connect() builds in its loop iteration for one
\* hook; it calls _event_callback(_callable).  The callable of an analyzer is
\* its _on_continue, named by the analyzer's inferior.  Each execution of the
\* def statement builds a new function object, equal to no other: the third
\* component tells the closures of one callable and one hook apart.
Serial(callable, hook) ==
    LET S == {hook_callbacks[hook][i][3] : i \in
                 {j \in 1 .. Len(hook_callbacks[hook]) :
                     hook_callbacks[hook][j][1] = callable}}
    IN  IF S = {} THEN 1 ELSE 1 + CHOOSE m \in S : \A n \in S : n <= m
Callback(callable, hook) == << callable, hook, Serial(callable, hook) >>
NoCallback == << 0, "none", 0 >>

\* _GDBHook.add_callback: the assertion (the callback is not in the list)
\* holds for a closure just built; the callback is appended.
add_callback(callbacks, callback) == Append(callbacks, callback)

\* _ContinueEventRegistry.connect: one new closure per hook of self._hooks,
\* each added to its hook.
ConnectFirstHookOnly(hc, callable) ==
    [h \in DOMAIN hc |->
        IF h = continue_events[1]
        THEN add_callback(hc[h], Callback(callable, h))
        ELSE hc[h]]
ConnectHooks(hc, callable) ==
    [h \in DOMAIN hc |->
        IF h \in ContinueEventSet
        THEN add_callback(hc[h], Callback(callable, h))
        ELSE hc[h]]

\* ... and the dict entry, overwritten in each iteration, ends as the closure
\* of the last hook.
ConnectMap(c2c, callable) ==
    [c2c EXCEPT ![callable] =
        Callback(callable, continue_events[Len(continue_events)])]

\* _GDBHook.remove_callback: the assertion (the callback is in the list
\* once) and the removal.
remove_callback(callbacks, callback) ==
    LET at == {i \in 1 .. Len(callbacks) : callbacks[i] = callback}
    IN  IF Cardinality(at) # 1
        THEN [callbacks |-> callbacks, raised |-> "AssertionError"]
        ELSE [callbacks |-> SelectSeq(callbacks, LAMBDA c : c # callback),
              raised |-> "none"]

\* _ContinueEventRegistry.disconnect, its loop over self._hooks from hook i
\* on: a failed assertion leaves the loop and the method.
RECURSIVE DisconnectLoop(_, _, _)
DisconnectLoop(hc, callback, i) ==
    IF i > Len(continue_events)
    THEN [hc |-> hc, raised |-> "none"]
    ELSE LET h == continue_events[i]
             r == remove_callback(hc[h], callback)
         IN  IF r.raised # "none"
             THEN [hc |-> hc, raised |-> r.raised]
             ELSE DisconnectLoop([hc EXCEPT ![h] = r.callbacks], callback, i + 1)

\* _ContinueEventRegistry.disconnect: the dict entry of the callable is
\* popped, the assertion fails if there was none, and the popped callback is
\* removed from every hook.
disconnect_unchecked(hc, c2c, callable) ==
    LET callback == c2c[callable]
        popped   == [c2c EXCEPT ![callable] = NoCallback]
    IN  IF callback = NoCallback
        THEN [hc |-> hc, c2c |-> popped, raised |-> "none"]
        ELSE LET r == DisconnectLoop(hc, callback, 1)
             IN  [hc |-> r.hc, c2c |-> popped, raised |-> r.raised]
disconnect(hc, c2c, callable) ==
    LET callback == c2c[callable]
        popped   == [c2c EXCEPT ![callable] = NoCallback]
    IN  IF callback = NoCallback
        THEN [hc |-> hc, c2c |-> popped, raised |-> "AssertionError"]
        ELSE LET r == DisconnectLoop(hc, callback, 1)
             IN  [hc |-> r.hc, c2c |-> popped, raised |-> r.raised]

\* _GDBHook.get_hook: a command without a hook object gets one, with an empty
\* callback list (_GDBHook.__init__); the registry's hook is returned.
get_hook_new(hc, command) ==
    [h \in DOMAIN hc \cup {command} |-> IF h = command THEN << >> ELSE hc[h]]
get_hook(hc, command) ==
    IF command \in DOMAIN hc
    THEN hc
    ELSE [h \in DOMAIN hc \cup {command} |->
             IF h = command THEN << >> ELSE hc[h]]

\* _GDBHook._on_call of the hook of `command`: the callables its callbacks
\* call, in call order.
Calls(command) ==
    [i \in 1 .. Len(hook_callbacks[command]) |-> hook_callbacks[command][i][1]]

\* The commands a hook's run leaves registered: _on_continue is one
\* assignment to the analyzer's flag and constructs or removes no command.
CommandsDroppedOnCall(cmds, called) ==
    {c \in cmds : \A i \in 1 .. Len(called) : called[i] # c[2]}
CommandsOnCall(cmds, called) == cmds

\* _GDBHook._on_call, what the calls do: each callback runs _event_callback,
\* which calls the callable, BaseHeapAnalyzer._on_continue of an analyzer,
\* which clears _is_valid.  `called` is the callables called.
OnCall(valid, called) ==
    [t \in Inferiors |->
        IF \E i \in 1 .. Len(called) : called[i] = t
        THEN FALSE ELSE valid[t]]

\* BaseHeapAnalyzer.is_valid of the analyzer of inferior t:
\* self._is_valid and self.inferior.is_valid()
is_valid(t) == _is_valid[t] /\ t \in inferiors

\* BaseHeapAnalyzer.analyze
analyze(valid, t) == [valid EXCEPT ![t] = TRUE]

\* BaseHeapAnalyzer.__init__ of the analyzer a detector builds for inferior t:
\* _is_valid = True (and _on_continue is connected to gdb.events.cont).
InitValid(valid, t) == [valid EXCEPT ![t] = TRUE]

\* ------------------------------------------------------- AnalyzerState

\* AnalyzerState.detect_heap, the except clauses of its loop: which detector
\* outcomes end the loop (a returned analyzer and WrongHeapVersionError
\* `break`; HeapDetectionError is passed over).
BreaksOnlyOnWrongVersion(o) == o = "WrongHeapVersionError"
BreaksOnlyOnAnalyzer(o) == o = "Analyzer"
Breaks(o) == o \in {"Analyzer", "WrongHeapVersionError"}

\* AnalyzerState.detect_heap, the loop over _heap_detectors from detector i
\* on: heap_analyzer is the local of that name (by: the detector whose
\* analyzer it is), invoked the detectors called so far.  outcomes[d] is what
\* detector d does when called on the inferior.  An exception other than the
\* two caught ones leaves the loop and the method (raised).
RECURSIVE DetectLoop(_, _, _, _, _)
DetectLoop(outcomes, i, heap_analyzer, by, invoked) ==
    IF i > Len(heap_detectors)
    THEN [heap_analyzer |-> heap_analyzer, by |-> by, invoked |-> invoked,
          raised |-> "none"]
    ELSE LET d   == heap_detectors[i]
             o   == outcomes[d]
             inv == Append(invoked, d)
             ha  == IF o = "Analyzer" THEN Analyzer ELSE heap_analyzer
             by2 == IF o = "Analyzer" THEN d ELSE by
         IN  IF o \notin NormalOutcomes
             THEN [heap_analyzer |-> heap_analyzer, by |-> by, invoked |-> inv,
                   raised |-> o]
             ELSE IF Breaks(o)
             THEN [heap_analyzer |-> ha, by |-> by2, invoked |-> inv,
                   raised |-> "none"]
             ELSE DetectLoop(outcomes, i + 1, ha, by2, inv)

\* AnalyzerState.detect_heap for the selected inferior: the subscript raises
\* KeyError for an inferior without a key, the assertion fails for a slot
\* that is not None; otherwise the loop runs and its result is stored and
\* returned.
detect_heap_no_assert(map, inferior, outcomes) ==
    IF map[inferior] = NoKey
    THEN [map |-> map, result |-> NoKey, by |-> 0, invoked |-> << >>,
          raised |-> "KeyError"]
    ELSE LET r == DetectLoop(outcomes, 1, UnsupportedHeap, 0, << >>)
         IN  IF r.raised # "none"
             THEN [map |-> map, result |-> NoKey, by |-> 0, invoked |-> r.invoked,
                   raised |-> r.raised]
             ELSE [map |-> [map EXCEPT ![inferior] = r.heap_analyzer],
                   result |-> r.heap_analyzer, by |-> r.by, invoked |-> r.invoked,
                   raised |-> "none"]
detect_heap_no_store(map, inferior, outcomes) ==
    IF map[inferior] = NoKey
    THEN [map |-> map, result |-> NoKey, by |-> 0, invoked |-> << >>,
          raised |-> "KeyError"]
    ELSE IF map[inferior] # None
    THEN [map |-> map, result |-> NoKey, by |-> 0, invoked |-> << >>,
          raised |-> "AssertionError"]
    ELSE LET r == DetectLoop(outcomes, 1, UnsupportedHeap, 0, << >>)
         IN  [map |-> map, result |-> IF r.raised # "none" THEN NoKey ELSE r.heap_analyzer,
              by |-> r.by, invoked |-> r.invoked, raised |-> r.raised]
detect_heap_store_on_raise(map, inferior, outcomes) ==
    IF map[inferior] = NoKey
    THEN [map |-> map, result |-> NoKey, by |-> 0, invoked |-> << >>,
          raised |-> "KeyError"]
    ELSE IF map[inferior] # None
    THEN [map |-> map, result |-> NoKey, by |-> 0, invoked |-> << >>,
          raised |-> "AssertionError"]
    ELSE LET r == DetectLoop(outcomes, 1, UnsupportedHeap, 0, << >>)
         IN  [map |-> [map EXCEPT ![inferior] = r.heap_analyzer],
              result |-> IF r.raised # "none" THEN NoKey ELSE r.heap_analyzer,
              by |-> r.by, invoked |-> r.invoked, raised |-> r.raised]
detect_heap(map, inferior, outcomes) ==
    IF map[inferior] = NoKey
    THEN [map |-> map, result |-> NoKey, by |-> 0, invoked |-> << >>,
          raised |-> "KeyError"]
    ELSE IF map[inferior] # None
    THEN [map |-> map, result |-> NoKey, by |-> 0, invoked |-> << >>,
          raised |-> "AssertionError"]
    ELSE LET r == DetectLoop(outcomes, 1, UnsupportedHeap, 0, << >>)
         IN  IF r.raised # "none"
             THEN [map |-> map, result |-> NoKey, by |-> 0, invoked |-> r.invoked,
                   raised |-> r.raised]
             ELSE [map |-> [map EXCEPT ![inferior] = r.heap_analyzer],
                   result |-> r.heap_analyzer, by |-> r.by, invoked |-> r.invoked,
                   raised |-> "none"]

\* AnalyzerState.on_inferior_change, its first statement and the rest:
\* setdefault, and activate_commands() if the slot holds an analyzer.
on_inferior_change_lookup(map, new_inferior) == SetDefault(map, new_inferior)
on_inferior_change_activate(cmds, map, new_inferior) ==
    IF on_inferior_change_lookup(map, new_inferior)[new_inferior] = Analyzer
    THEN activate_commands(cmds, new_inferior) ELSE cmds

\* AnalyzerState.on_inferior_change as a whole: the commands it leaves.
on_inferior_change(cmds, map, new_inferior) ==
    on_inferior_change_activate(activate_basic_commands(cmds), map, new_inferior)

\* ------------------------------------------------- record of an operation

\* op       the operation the last step ran ("none": a step that is none of
\*          the operations below)
\* target   the inferior it ran for
\* outcomes what each detector does for that inferior (<< >>: not asked)
\* invoked  the detectors detect_heap called, in call order
\* result   the slot value the operation returned, by the detector that
\*          built it if it is an analyzer
\* raised   the exception that left the operation ("none": it returned)
\* prompted raw_input asked for confirmation; response: the answer
\* analyzed analyze() ran on the inferior's analyzer
\* blocked  the command printed a refusal and did not reach its body
\* thread   the thread that ran the operation
\* called   the callables a hook called when its command ran, in call order
\* gate     what requires_debuginfo did with the invocation
\* body     control reached the statements of an allocator command's invoke
\*          that follow its call of AnalyzerCommandBase.invoke
NoOut ==
    [op |-> "none", target |-> 0, outcomes |-> << >>, invoked |-> << >>,
     result |-> NoKey, by |-> 0, raised |-> "none", prompted |-> FALSE,
     response |-> "", analyzed |-> FALSE, blocked |-> FALSE,
     thread |-> "none", called |-> << >>, gate |-> "none", body |-> FALSE]

\* An operation gdb runs on its main thread for the selected inferior.
Op(name) == [NoOut EXCEPT !.op = name, !.target = selected, !.thread = "main"]

\* The part of the state the operator's commands write.
St(map, valid, cmds, hc, c2c, o) ==
    [map |-> map, valid |-> valid, cmds |-> cmds, hc |-> hc, c2c |-> c2c, out |-> o]

Apply(st) ==
    /\ inferior_to_analyzer_map' = st.map
    /\ _is_valid' = st.valid
    /\ commands' = st.cmds
    /\ hook_callbacks' = st.hc
    /\ callables_to_callbacks' = st.c2c
    /\ out' = st.out

\* --------------------------------------------------------------- commands

\* requires_running_or_core, and the argument check of invoke: the command
\* body is reached for an inferior that is a running process or a core dump,
\* when no argument was given.
ReachesBody(args, runnable) == runnable /\ args = ""

\* HeapAnalyzeCommand.invoke: `response == "Y" or response == "y"`
Affirmative(response) == response \in {"Y", "y"}

\* HeapAnalyzeCommand.invoke: the branch that asks before re-analyzing is the
\* one taken for an analyzer whose is_valid() is true.
AsksAlways(t) == TRUE
Asks(t) == is_valid(t)

\* HeapAnalyzeCommand.invoke, decorated with requires_running_or_core.
\*   args      the command's argument string
\*   runnable  the host's answer: the selected inferior is running or a core
\*   outcomes  what each detector does for the selected inferior
\*   response  what the operator types if raw_input asks
HeapAnalyzeInvoke(args, runnable, outcomes, response) ==
    LET t    == selected
        o0   == Op("heap analyze")
        map0 == inferior_to_analyzer_map
    IN  IF ~ReachesBody(args, runnable)
        THEN St(map0, _is_valid, commands, hook_callbacks, callables_to_callbacks,
                [o0 EXCEPT !.blocked = TRUE])
        ELSE
        LET map1 == SetDefault(map0, t)      \* get_current_analyzer
            cur  == map1[t]
        IN  IF cur = None
            THEN LET r  == detect_heap(map1, t, outcomes)
                     o1 == [o0 EXCEPT !.outcomes = outcomes, !.invoked = r.invoked,
                                      !.result = r.result, !.by = r.by,
                                      !.raised = r.raised]
                 IN  IF r.raised # "none"
                     THEN St(r.map, _is_valid, commands, hook_callbacks,
                             callables_to_callbacks, o1)
                     ELSE IF r.result = UnsupportedHeap
                     THEN \* UnsupportedHeap.analyze(): the singleton has no methods
                          St(r.map, _is_valid, commands, hook_callbacks,
                             callables_to_callbacks,
                             [o1 EXCEPT !.raised = "AttributeError"])
                     ELSE St(r.map,
                             analyze(InitValid(_is_valid, t), t),
                             activate_commands(commands, t),
                             ConnectHooks(hook_callbacks, t),
                             ConnectMap(callables_to_callbacks, t),
                             [o1 EXCEPT !.analyzed = TRUE])
            ELSE IF cur = UnsupportedHeap
            THEN \* UnsupportedHeap.is_valid(): the singleton has no methods
                 St(map1, _is_valid, commands, hook_callbacks, callables_to_callbacks,
                    [o0 EXCEPT !.result = cur, !.raised = "AttributeError"])
            ELSE IF ~Asks(t)
            THEN St(map1, analyze(_is_valid, t), commands, hook_callbacks,
                    callables_to_callbacks,
                    [o0 EXCEPT !.result = cur, !.analyzed = TRUE])
            ELSE IF Affirmative(response)
            THEN St(map1, analyze(_is_valid, t), commands, hook_callbacks,
                    callables_to_callbacks,
                    [o0 EXCEPT !.result = cur, !.prompted = TRUE,
                               !.response = response, !.analyzed = TRUE])
            ELSE St(map1, _is_valid, commands, hook_callbacks, callables_to_callbacks,
                    [o0 EXCEPT !.result = cur, !.prompted = TRUE,
                               !.response = response])

Args      == {"", "x"}
Responses == {"y", "Y", "n", ""}

\* The inputs invoke reads in the current state: the detectors answer only if
\* detect_heap calls them (DetectorsAsked: it calls the first one), the
\* operator only if raw_input asks.  A detector that detect_heap does not
\* call is one that would have built an analyzer (OutcomesAsked).
DetectorsAsked(map) ==
    detect_heap(map, selected,
                [d \in 1 .. NumDetectors |-> "HeapDetectionError"]).invoked # << >>
OutcomesAsked(map, Outcomes) ==
    {o \in [1 .. NumDetectors -> Outcomes] :
        LET invoked == detect_heap(map, selected, o).invoked
        IN  \A d \in 1 .. NumDetectors :
                (\A i \in 1 .. Len(invoked) : invoked[i] # d) => o[d] = "Analyzer"}
OutcomesRead(Outcomes) ==
    IF /\ SetDefault(inferior_to_analyzer_map, selected)[selected] = None
       /\ DetectorsAsked(SetDefault(inferior_to_analyzer_map, selected))
    THEN OutcomesAsked(SetDefault(inferior_to_analyzer_map, selected), Outcomes)
    ELSE {<< >>}
ResponsesRead ==
    IF inferior_to_analyzer_map[selected] = Analyzer /\ is_valid(selected)
    THEN Responses ELSE {""}

\* The operator runs "heap analyze".
HeapAnalyze(Outcomes) ==
    /\ m_pc = "idle"
    /\ \/ \E args \in Args, runnable \in BOOLEAN :
             /\ ~ReachesBody(args, runnable)
             /\ Apply(HeapAnalyzeInvoke(args, runnable, << >>, ""))
       \/ \E response \in ResponsesRead, outcomes \in OutcomesRead(Outcomes) :
             Apply(HeapAnalyzeInvoke("", TRUE, outcomes, response))
    /\ UNCHANGED << gateVars, hostVars, watcherVars, posted, m_pc, current_inferior >>

\* AnalyzerState.detect_heap called on its own (it is a public method; the
\* repository's one caller is HeapAnalyzeCommand.invoke).
DetectHeapCall(Outcomes) ==
    /\ m_pc = "idle"
    /\ \E outcomes \in (IF DetectorsAsked(inferior_to_analyzer_map)
                        THEN OutcomesAsked(inferior_to_analyzer_map, Outcomes)
                        ELSE {<< >>}) :
          LET t == selected
              r == detect_heap(inferior_to_analyzer_map, t, outcomes)
              o == [Op("detect_heap") EXCEPT
                       !.outcomes = outcomes,
                       !.invoked = r.invoked, !.result = r.result, !.by = r.by,
                       !.raised = r.raised]
          IN  IF r.raised = "none" /\ r.result = Analyzer
              THEN Apply(St(r.map, InitValid(_is_valid, t), commands,
                            ConnectHooks(hook_callbacks, t),
                            ConnectMap(callables_to_callbacks, t), o))
              ELSE Apply(St(r.map, _is_valid, commands, hook_callbacks,
                            callables_to_callbacks, o))
    /\ UNCHANGED << gateVars, hostVars, watcherVars, posted, m_pc, current_inferior >>

\* AnalyzerState.get_current_analyzer: the map it leaves; it returns the
\* selected inferior's slot of that map.
get_current_analyzer(map) == SetDefault(map, selected)

\* HeapInfoCommand.invoke: with an argument it prints a refusal, otherwise it
\* prints according to what get_current_analyzer() returns.
HeapInfo ==
    /\ m_pc = "idle"
    /\ \E args \in Args :
          IF args # ""
          THEN /\ out' = [Op("heap info") EXCEPT !.blocked = TRUE]
               /\ UNCHANGED inferior_to_analyzer_map
          ELSE /\ inferior_to_analyzer_map' = get_current_analyzer(inferior_to_analyzer_map)
               /\ out' = [Op("heap info") EXCEPT
                             !.result = inferior_to_analyzer_map'[selected]]
    /\ UNCHANGED << gateVars, hostVars, watcherVars, _is_valid, commands, eventVars,
                    posted, m_pc, current_inferior >>

\* A hooked resume command runs: gdb runs hook-<command>, which calls
\* _GDBHook._on_call.
Resume ==
    /\ m_pc = "idle"
    /\ \E called \in {Calls(command) : command \in ContinueEventSet} :
          /\ _is_valid' = OnCall(_is_valid, called)
          /\ commands' = CommandsOnCall(commands, called)
          /\ out' = [Op("resume") EXCEPT !.called = called]
    /\ UNCHANGED << gateVars, hostVars, watcherVars, inferior_to_analyzer_map,
                    eventVars, posted, m_pc, current_inferior >>

\* gdb.events.cont.connect(callable) called on its own, for a callable named
\* like an analyzer's.
ConnectCall ==
    /\ m_pc = "idle"
    /\ \E callable \in Inferiors :
          /\ \A h \in ContinueEventSet : Len(hook_callbacks[h]) < MaxConnects
          /\ hook_callbacks' = ConnectHooks(hook_callbacks, callable)
          /\ callables_to_callbacks' = ConnectMap(callables_to_callbacks, callable)
          /\ out' = [Op("connect") EXCEPT !.target = callable]
    /\ UNCHANGED << gateVars, hostVars, watcherVars, inferior_to_analyzer_map, _is_valid,
                    commands, posted, m_pc, current_inferior >>

\* gdb.events.cont.disconnect(callable) called on its own.
DisconnectCall ==
    /\ m_pc = "idle"
    /\ \E callable \in Inferiors :
          LET r == disconnect(hook_callbacks, callables_to_callbacks, callable)
          IN  /\ hook_callbacks' = r.hc
              /\ callables_to_callbacks' = r.c2c
              /\ out' = [Op("disconnect") EXCEPT !.target = callable,
                                                 !.raised = r.raised]
    /\ UNCHANGED << gateVars, hostVars, watcherVars, inferior_to_analyzer_map, _is_valid,
                    commands, posted, m_pc, current_inferior >>

\* _GDBHook.get_hook(command) called on its own, as HookCommand.invoke calls
\* it for the command the user names.
GetHookCall ==
    /\ m_pc = "idle"
    /\ \E command \in HookableCommands :
          /\ hook_callbacks' = get_hook(hook_callbacks, command)
          /\ out' = [Op("get_hook") EXCEPT !.response = command]
    /\ UNCHANGED << gateVars, hostVars, watcherVars, inferior_to_analyzer_map, _is_valid,
                    commands, callables_to_callbacks, posted, m_pc,
                    current_inferior >>

\* ------------------------------------------------------------------- host

\* The operator selects another live inferior ("inferior N").
SelectInferior ==
    /\ m_pc = "idle"
    /\ \E t \in inferiors \ {selected} : selected' = t
    /\ out' = NoOut
    /\ UNCHANGED << gateVars, inferiors, watcherVars, inferior_to_analyzer_map,
                    _is_valid, commands, eventVars, posted, m_pc, current_inferior >>

\* An inferior number the program holds no trace of: not live, no key in the
\* map, not the watcher's last_inferior.  gdb never reuses the number of a
\* removed inferior; a number nothing remembers stands for a new one.
Fresh(t) ==
    /\ t \notin inferiors
    /\ inferior_to_analyzer_map[t] = NoKey
    /\ last_inferior # t

\* The operator adds an inferior ("add-inferior").
AddInferior ==
    /\ m_pc = "idle"
    /\ \E t \in Inferiors :
          /\ Fresh(t)
          /\ \A u \in Inferiors : Fresh(u) => t <= u
          /\ inferiors' = inferiors \cup {t}
    /\ out' = NoOut
    /\ UNCHANGED << gateVars, selected, watcherVars, inferior_to_analyzer_map,
                    _is_valid, commands, eventVars, posted, m_pc, current_inferior >>

\* The operator removes an inferior that is not the selected one
\* ("remove-inferiors"): from then on its is_valid() is false.
RemoveInferior ==
    /\ m_pc = "idle"
    /\ \E t \in inferiors \ {selected} : inferiors' = inferiors \ {t}
    /\ out' = NoOut
    /\ UNCHANGED << gateVars, selected, watcherVars, inferior_to_analyzer_map,
                    _is_valid, commands, eventVars, posted, m_pc, current_inferior >>

\* ------------------------------------------ commands that need debuginfo

\* The commands whose invoke is decorated with requires_debuginfo("libc"):
\* HeapArenasCommand and HeapDetailsCommand.  The decorator is applied once
\* for each, when its class is defined, and each application makes its own
\* debuginfo_cache = {}.
GatedCommands == {"heap arenas", "heap details"}

\* What a debuginfo_cache holds for "libc": no entry, True or False.
NoEntry == "no entry"
Found   == "True"
Missing == "False"

\* is_debuginfo_loaded("libc"), as the cache stores it
is_debuginfo_loaded == IF debuginfo_loaded THEN Found ELSE Missing

\* debuginfo_cache.setdefault(debuginfo, is_debuginfo_loaded(debuginfo)) on
\* the cache of the command `name`: the cache it leaves and what it returns.
\* (The host is queried every time; its answer is used only without entry.)
CacheSetDefault(cache, name) ==
    IF cache[name] = NoEntry
    THEN [cache EXCEPT ![name] = is_debuginfo_loaded]
    ELSE cache

\* new_func of requires_debuginfo around invoke of HeapArenasCommand or
\* HeapDetailsCommand, for the command object c = << name, analyzer >>:
\* without debuginfo it prints "Missing debuginfo for libc"; otherwise invoke
\* runs: it refuses arguments, then calls AnalyzerCommandBase.invoke, which
\* prints "out of date" and returns if the analyzer is not valid, and which
\* returns in any case to the statement after the call (BodyAfterSuper).
BodyAfterSuper(reached, valid) == reached
GatedInvoke(c, args) ==
    LET cache == CacheSetDefault(debuginfo_cache, c[1])
        found == cache[c[1]] = Found
        super == found /\ args = ""
    IN  [cache |-> cache,
         out   |-> [Op(c[1]) EXCEPT
                       !.target = c[2],
                       !.gate = IF found THEN "invoke" ELSE "Missing debuginfo",
                       !.blocked = found /\ args # "",
                       !.response = IF super /\ ~is_valid(c[2])
                                    THEN "out of date" ELSE "",
                       !.body = BodyAfterSuper(super, is_valid(c[2]))]]

\* The operator runs a registered allocator command.
AllocatorCommand ==
    /\ m_pc = "idle"
    /\ \E c \in ActiveAllocatorVerbs, args \in Args :
          LET r == GatedInvoke(c, args)
          IN  /\ debuginfo_cache' = r.cache
              /\ out' = r.out
    /\ UNCHANGED << debuginfo_loaded, hostVars, watcherVars,
                    inferior_to_analyzer_map, _is_valid, commands, eventVars,
                    posted, m_pc, current_inferior >>

\* The host's answer to "info sharedlibrary" changes: the program starts and
\* loads libc, debuginfo is installed and read, or the program ends.
SharedLibraryEvent ==
    /\ m_pc = "idle"
    /\ debuginfo_loaded' = ~debuginfo_loaded
    /\ out' = NoOut
    /\ UNCHANGED << debuginfo_cache, hostVars, watcherVars,
                    inferior_to_analyzer_map, _is_valid, commands, eventVars,
                    posted, m_pc, current_inferior >>

\* --------------------------------------- check_for_change, on the main thread

\* check_for_change: the value of event_finished[0] after the statement at
\* `at`.  It is set as the first statement ("begin"), before the try block;
\* neither the normal return ("return") nor the except clause ("except")
\* touches it.
EventFinishedAtReturn(at) == IF at = "return" THEN TRUE ELSE event_finished
EventFinishedAt(at) == IF at = "begin" THEN TRUE ELSE event_finished

\* check_for_change: the value of last_inferior[0] when a check that called
\* callback(current) ends at `at`.  The assignment follows the call inside
\* the try block: it is made on the way to the normal return and skipped
\* when the call raises.
LastInferiorAtExcept(at, current) == current
LastInferiorAt(at, current) == IF at = "return" THEN current ELSE last_inferior

\* gdb takes a posted check_for_change off its event queue and runs its first
\* statement: event_finished[0] = True.
CfcBegin ==
    /\ m_pc = "idle"
    /\ posted > 0
    /\ posted' = posted - 1
    /\ event_finished' = EventFinishedAt("begin")
    /\ m_pc' = "read"
    /\ out' = NoOut
    /\ UNCHANGED << gateVars, hostVars, w_pc, last_inferior, stop_event,
                    inferior_to_analyzer_map, _is_valid, commands, eventVars,
                    current_inferior >>

\* current_inferior = selected_inferior(); the comparison with last_inferior[0]
CfcRead ==
    /\ m_pc = "read"
    /\ IF selected # last_inferior
       THEN /\ m_pc' = "callback" /\ current_inferior' = selected
            /\ UNCHANGED event_finished
       ELSE /\ m_pc' = "idle" /\ current_inferior' = 0
            /\ event_finished' = EventFinishedAt("return")
    /\ out' = NoOut
    /\ UNCHANGED << gateVars, hostVars, w_pc, last_inferior, stop_event,
                    inferior_to_analyzer_map, _is_valid, commands, eventVars,
                    posted >>

\* callback(current_inferior) is on_inferior_change; its first statement:
\* activate_basic_commands(self)
OicBasic ==
    /\ m_pc = "callback"
    /\ commands' = activate_basic_commands(commands)
    /\ m_pc' = "lookup"
    /\ out' = NoOut
    /\ UNCHANGED << gateVars, hostVars, watcherVars, inferior_to_analyzer_map, _is_valid,
                    eventVars, posted, current_inferior >>

\* on_inferior_change: analyzer = map.setdefault(new_inferior, None), and
\* analyzer.activate_commands() if it is an analyzer; then, the callback
\* having returned, check_for_change: last_inferior[0] = current_inferior.
OicFinish ==
    /\ m_pc = "lookup"
    /\ inferior_to_analyzer_map' =
           on_inferior_change_lookup(inferior_to_analyzer_map, current_inferior)
    /\ commands' =
           on_inferior_change_activate(commands, inferior_to_analyzer_map,
                                       current_inferior)
    /\ last_inferior' = LastInferiorAt("return", current_inferior)
    /\ event_finished' = EventFinishedAt("return")
    /\ m_pc' = "idle"
    /\ current_inferior' = 0
    /\ out' = [NoOut EXCEPT !.op = "on_inferior_change",
                            !.thread = "main",
                            !.target = current_inferior,
                            !.result = inferior_to_analyzer_map'[current_inferior]]
    /\ UNCHANGED << gateVars, hostVars, w_pc, stop_event, _is_valid, eventVars, posted >>

\* A check that ended in its except clause.
CheckFailed ==
    [NoOut EXCEPT !.op = "check_for_change", !.raised = "Error",
                  !.thread = "main", !.target = selected]

\* check_for_change: selected_inferior() raises (the host cannot answer);
\* `except: pass` ends the check.
CfcReadFails ==
    /\ m_pc = "read"
    /\ m_pc' = "idle"
    /\ event_finished' = EventFinishedAt("except")
    /\ out' = CheckFailed
    /\ UNCHANGED << gateVars, hostVars, w_pc, last_inferior, stop_event,
                    inferior_to_analyzer_map, _is_valid, commands, eventVars,
                    posted, current_inferior >>

\* check_for_change: callback(current_inferior) raises, either at its first
\* registration of a basic command or, the basic commands registered and the
\* slot looked up, at the first registration of activate_commands();
\* `except: pass` ends the check before last_inferior[0] is assigned.
OicFails ==
    /\ \/ m_pc = "callback"
       \/ /\ m_pc = "lookup"
          /\ inferior_to_analyzer_map[current_inferior] = Analyzer
    /\ m_pc' = "idle"
    /\ current_inferior' = 0
    /\ event_finished' = EventFinishedAt("except")
    /\ last_inferior' = LastInferiorAt("except", current_inferior)
    /\ out' = [CheckFailed EXCEPT !.target = current_inferior]
    /\ UNCHANGED << gateVars, hostVars, w_pc, stop_event,
                    inferior_to_analyzer_map, _is_valid, commands, eventVars,
                    posted >>

\* ------------------------------------ watch_active_inferior, on its thread

\* The thread's lambda evaluates gdb.selected_inferior() for initial_inferior
\* when the thread runs it; last_inferior = [initial_inferior],
\* event_finished = [True].
WStart ==
    /\ w_pc = "start"
    /\ last_inferior' = selected
    /\ event_finished' = TRUE
    /\ w_pc' = "loop"
    /\ out' = [NoOut EXCEPT !.op = "selected_inferior", !.thread = "watcher",
                            !.target = selected]
    /\ UNCHANGED << gateVars, hostVars, stop_event, inferior_to_analyzer_map, _is_valid,
                    commands, eventVars, posted, m_pc, current_inferior >>

\* should_stop of a watcher that ignores its stop_event.
should_stop_ignored == FALSE

\* should_stop: stop_event.is_set() if a stop_event was given, else False.
should_stop == stop_event = "set"

\* One turn of `while not should_stop()`: event_finished[0] = False;
\* gdb.post_event(check_for_change); then the thread sleeps until it reads
\* event_finished[0] true, and 0.2 s more.
WPost ==
    /\ w_pc = "loop"
    /\ IF should_stop
       THEN /\ w_pc' = "stopped"
            /\ out' = NoOut
            /\ UNCHANGED << event_finished, posted >>
       ELSE /\ w_pc' = "wait"
            /\ event_finished' = FALSE
            /\ posted' = posted + 1
            /\ out' = NoOut
    /\ UNCHANGED << gateVars, hostVars, last_inferior, stop_event, inferior_to_analyzer_map,
                    _is_valid, commands, eventVars, m_pc, current_inferior >>

WWait ==
    /\ w_pc = "wait"
    /\ event_finished
    /\ w_pc' = "loop"
    /\ out' = NoOut
    /\ UNCHANGED << gateVars, hostVars, last_inferior, event_finished, stop_event,
                    inferior_to_analyzer_map, _is_valid, commands, eventVars,
                    posted, m_pc, current_inferior >>

\* ---------------------------------------------------------- specification

\* The state after `activate_basic_commands(AnalyzerState())` at import: the
\* map holds None for the inferiors gdb had, the watcher thread is started,
\* the basic commands are registered, no analyzer exists.
Init ==
    /\ \E n \in Inferiors : inferiors = 1 .. n
    /\ selected \in inferiors
    /\ inferior_to_analyzer_map =
           [t \in Inferiors |-> IF t \in inferiors THEN None ELSE NoKey]
    /\ _is_valid = [t \in Inferiors |-> FALSE]
    /\ commands = activate_basic_commands({})
    /\ hook_callbacks = [h \in ContinueEventSet |-> << >>]
    /\ callables_to_callbacks = [t \in Inferiors |-> NoCallback]
    /\ w_pc = "start"
    /\ last_inferior = 0
    /\ event_finished = TRUE
    /\ stop_event = "none"
    /\ posted = 0
    /\ m_pc = "idle"
    /\ current_inferior = 0
    /\ debuginfo_loaded = FALSE
    /\ debuginfo_cache = [name \in GatedCommands |-> NoEntry]
    /\ out = NoOut

\* The program: the operator's commands, the host, the watcher.
Next ==
    \/ HeapAnalyze(NormalOutcomes)
    \/ HeapInfo
    \/ Resume
    \/ SelectInferior
    \/ AddInferior
    \/ RemoveInferior
    \/ CfcBegin
    \/ CfcRead
    \/ OicBasic
    \/ OicFinish
    \/ WStart
    \/ WPost
    \/ WWait

Spec == Init /\ [][Next]_vars

\* The program, and detect_heap called as a method of its own.
NextApi ==
    \/ Next
    \/ DetectHeapCall(NormalOutcomes)

SpecApi == Init /\ [][NextApi]_vars

\* What a detector does in that program: it builds an analyzer or declines
\* (the slots an on_inferior_change can meet: analyzer, UnsupportedHeap, None).
CheckOutcomes == {"Analyzer", "HeapDetectionError"}

\* The program with a host whose queries and registrations can fail inside
\* a check of the watcher.
NextF ==
    \/ HeapAnalyze(CheckOutcomes)
    \/ HeapInfo
    \/ Resume
    \/ SelectInferior
    \/ AddInferior
    \/ RemoveInferior
    \/ CfcBegin
    \/ CfcRead
    \/ OicBasic
    \/ OicFinish
    \/ WStart
    \/ WPost
    \/ WWait
    \/ CfcReadFails
    \/ OicFails

SpecF == Init /\ [][NextF]_vars

\* The steps of gdb's main thread that run a posted check.
MainCheck ==
    \/ CfcBegin
    \/ CfcRead
    \/ CfcReadFails
    \/ OicBasic
    \/ OicFinish
    \/ OicFails

\* The steps of the watcher thread.
Watcher ==
    \/ WStart
    \/ WPost
    \/ WWait

\* ... with the scheduling the code relies on: the watcher thread keeps
\* running (its sleeps end), and gdb's main thread runs every callable that
\* gdb.post_event queued.
SpecFFair ==
    /\ SpecF
    /\ WF_vars(Watcher)
    /\ WF_vars(MainCheck)

\* The event emulation layer on its own: callables are connected to and
\* disconnected from gdb.events.cont, hooks are asked for, and hooked resume
\* commands run.
NextEvents ==
    \/ ConnectCall
    \/ DisconnectCall
    \/ GetHookCall
    \/ Resume

SpecEvents == Init /\ [][NextEvents]_vars

\* What a detector can do: the three outcomes detect_heap handles, and any
\* other exception (gdb.error from a lookup, for one).
DetectorOutcomes == NormalOutcomes \cup {"Error"}

\* The operator's commands and detect_heap with such detectors, and the host.
NextDetect ==
    \/ HeapAnalyze(DetectorOutcomes)
    \/ DetectHeapCall(DetectorOutcomes)
    \/ HeapInfo
    \/ Resume
    \/ SelectInferior
    \/ AddInferior
    \/ RemoveInferior

SpecDetect == Init /\ [][NextDetect]_vars

\* The program with the scheduling of SpecFFair.
SpecFair ==
    /\ Spec
    /\ WF_vars(Watcher)
    /\ WF_vars(MainCheck)

\* watch_active_inferior called with a threading.Event as stop_event, or
\* with none as AnalyzerState.__init__ calls it; the rest as Init.
InitStop ==
    /\ \E n \in Inferiors : inferiors = 1 .. n
    /\ selected \in inferiors
    /\ inferior_to_analyzer_map =
           [t \in Inferiors |-> IF t \in inferiors THEN None ELSE NoKey]
    /\ _is_valid = [t \in Inferiors |-> FALSE]
    /\ commands = activate_basic_commands({})
    /\ hook_callbacks = [h \in ContinueEventSet |-> << >>]
    /\ callables_to_callbacks = [t \in Inferiors |-> NoCallback]
    /\ w_pc = "start"
    /\ last_inferior = 0
    /\ event_finished = TRUE
    /\ stop_event \in {"none", "unset"}
    /\ posted = 0
    /\ m_pc = "idle"
    /\ current_inferior = 0
    /\ debuginfo_loaded = FALSE
    /\ debuginfo_cache = [name \in GatedCommands |-> NoEntry]
    /\ out = NoOut

\* The owner of the stop_event calls its set().
StopEventSet ==
    /\ stop_event = "unset"
    /\ stop_event' = "set"
    /\ out' = NoOut
    /\ UNCHANGED << gateVars, hostVars, w_pc, last_inferior, event_finished,
                    inferior_to_analyzer_map, _is_valid, commands, eventVars,
                    posted, m_pc, current_inferior >>

\* The watcher, the checks it posts, the host whose selection it watches
\* and the owner of its stop_event.
NextStop ==
    \/ SelectInferior
    \/ AddInferior
    \/ RemoveInferior
    \/ CfcBegin
    \/ CfcRead
    \/ CfcReadFails
    \/ OicBasic
    \/ OicFinish
    \/ OicFails
    \/ WStart
    \/ WPost
    \/ WWait
    \/ StopEventSet

\* ... with the scheduling of SpecFFair.
SpecStop ==
    /\ InitStop /\ [][NextStop]_vars
    /\ WF_vars(Watcher)
    /\ WF_vars(MainCheck)

\* The program, the allocator commands run by the operator, and a host whose
\* shared libraries change.
NextVerbs ==
    \/ Next
    \/ AllocatorCommand
    \/ SharedLibraryEvent

SpecVerbs == Init /\ [][NextVerbs]_vars

\* -------------------------------------------------------------- properties

\* The base verb set: the prefix "heap" and its two always-active verbs.
BaseVerbSet ==
    {<< "heap", BASIC >>, << "heap info", BASIC >>, << "heap analyze", BASIC >>}

\* C1: in every reachable state the active allocator-specific verbs are
\* exactly those of the analyzer in the selected inferior's slot, and there
\* are none when that slot is unanalyzed or unsupported; verbs of an inferior
\* that is not selected are never active.
C1_VerbsReflectSelectedSlot ==
    ActiveAllocatorVerbs =
        IF inferior_to_analyzer_map[selected] = Analyzer
        THEN {<< "heap arenas", selected >>, << "heap details", selected >>}
        ELSE {}

\* The detectors called by the last step answered, in call order.
Answer(i) == out.outcomes[out.invoked[i]]

\* C2: detect_heap calls the detectors in their configured order, each once,
\* and stops at the first that returns an analyzer: every detector called
\* before it declined, none after it is called, and its analyzer is the
\* selected inferior's slot; if all decline, all were called and the slot is
\* UnsupportedHeap.
C2_FirstAnalyzerEndsTheChain ==
    out.invoked # << >> =>
        LET k == Len(out.invoked) IN
        /\ k <= NumDetectors
        /\ \A i \in 1 .. k : out.invoked[i] = i
        /\ \A i \in 1 .. k : Answer(i) = "Analyzer" =>
              /\ i = k
              /\ \A j \in 1 .. i - 1 : Answer(j) = "HeapDetectionError"
              /\ out.result = Analyzer
              /\ out.by = i
              /\ inferior_to_analyzer_map[out.target] = Analyzer
        /\ (\A i \in 1 .. NumDetectors : out.outcomes[i] = "HeapDetectionError") =>
              /\ k = NumDetectors
              /\ out.result = UnsupportedHeap
              /\ inferior_to_analyzer_map[out.target] = UnsupportedHeap
        /\ (\E i \in 1 .. NumDetectors :
               /\ out.outcomes[i] = "Analyzer"
               /\ \A j \in 1 .. i - 1 : out.outcomes[j] = "HeapDetectionError") =>
              out.result = Analyzer

\* C2's case: the chain ran and a detector that is not the first built the
\* analyzer now in the slot.
C2_Witness ==
    /\ out.invoked # << >>
    /\ out.result = Analyzer
    /\ out.by > 1
    /\ inferior_to_analyzer_map[out.target] = Analyzer

\* C3: when a called detector reports a wrong version, it is the last
\* detector called, whatever a later one would have returned, and the
\* selected inferior's slot is UnsupportedHeap.
C3_WrongVersionEndsTheChain ==
    \A i \in 1 .. Len(out.invoked) :
        Answer(i) = "WrongHeapVersionError" =>
            /\ i = Len(out.invoked)
            /\ out.result = UnsupportedHeap
            /\ inferior_to_analyzer_map[out.target] = UnsupportedHeap

\* C3's case: a detector reported a wrong version and the next one in the
\* chain would have returned an analyzer.
C3_Witness ==
    /\ out.invoked # << >>
    /\ Len(out.invoked) < NumDetectors
    /\ Answer(Len(out.invoked)) = "WrongHeapVersionError"
    /\ out.outcomes[Len(out.invoked) + 1] = "Analyzer"

\* C4: detect_heap called while the selected inferior's slot is
\* UnsupportedHeap or an analyzer fails its assertion: no detector is called,
\* nothing is returned, and the map, the validity flags, the hooks and the
\* commands are as before.
C4_DetectHeapAssertsUnanalyzed ==
    [][(/\ out'.op = "detect_heap"
        /\ inferior_to_analyzer_map[selected] \in {UnsupportedHeap, Analyzer}) =>
           /\ out'.raised = "AssertionError"
           /\ out'.invoked = << >>
           /\ out'.result = NoKey
           /\ inferior_to_analyzer_map' = inferior_to_analyzer_map
           /\ _is_valid' = _is_valid
           /\ hook_callbacks' = hook_callbacks
           /\ commands' = commands]_vars

\* C4's case: detect_heap has just failed its assertion for an inferior
\* whose slot holds an analyzer.
C4_Witness ==
    /\ out.op = "detect_heap"
    /\ out.raised = "AssertionError"
    /\ inferior_to_analyzer_map[out.target] = Analyzer

\* C5: on_inferior_change first registers the basic commands again, which
\* leaves exactly the base verb set, and only then looks up the new
\* inferior's slot and activates its analyzer's verbs: after its first step
\* no verb of another inferior is active, and for a slot that is unanalyzed
\* or unsupported it ends with exactly the base verb set.
C5_ResetBeforeActivate ==
    /\ m_pc = "lookup" =>
          /\ commands = BaseVerbSet
          /\ last_inferior # current_inferior
    /\ out.op = "on_inferior_change" =>
          /\ \A c \in ActiveAllocatorVerbs : c[2] = out.target
          /\ out.result \in {None, UnsupportedHeap} => commands = BaseVerbSet
          /\ out.result = Analyzer =>
                commands = BaseVerbSet \cup {<< "heap arenas", out.target >>,
                                             << "heap details", out.target >>}

\* C5's case: the reset has run while the verbs of the inferior selected
\* before were those of its analyzer, and the new inferior holds an
\* analyzer too.
C5_Witness ==
    /\ m_pc = "lookup"
    /\ last_inferior \in Inferiors
    /\ inferior_to_analyzer_map[last_inferior] = Analyzer
    /\ inferior_to_analyzer_map[current_inferior] = Analyzer

\* C6: for inferiors A and B in any slot states, after the selection goes
\* from A to B and back to A, on_inferior_change running for each change and
\* nothing being analyzed in between, the registered commands are those
\* registered just before A was left.  Stated for every state in which the
\* watcher has caught up with the selection (A = selected = last_inferior).
C6_RoundTripRestoresVerbs ==
    (m_pc = "idle" /\ last_inferior = selected) =>
        \A B \in inferiors \ {selected} :
            LET A     == selected
                mapB  == on_inferior_change_lookup(inferior_to_analyzer_map, B)
                cmdsB == on_inferior_change(commands, inferior_to_analyzer_map, B)
            IN  on_inferior_change(cmdsB, mapB, A) = commands

\* C7: after a resume notification every analyzer there is answers is_valid()
\* with false; after analyze() has run on an analyzer, it answers true.
C7_ResumeInvalidatesAnalyzeValidates ==
    /\ out.op = "resume" =>
          \A t \in Inferiors :
              inferior_to_analyzer_map[t] = Analyzer => ~is_valid(t)
    /\ out.analyzed =>
          /\ inferior_to_analyzer_map[out.target] = Analyzer
          /\ is_valid(out.target)

\* C7's case: analyze() has just run, unasked, on an analyzer that was there
\* before and was invalid (a resume notification had reached it), while a
\* second analyzer is still invalid.
C7_Witness ==
    /\ out.op = "heap analyze"
    /\ out.analyzed
    /\ out.invoked = << >>
    /\ ~out.prompted
    /\ is_valid(out.target)
    /\ \E t \in inferiors \ {out.target} :
           inferior_to_analyzer_map[t] = Analyzer /\ ~is_valid(t)

\* C8: "heap analyze", run without argument for an inferior that is running
\* or a core, asks for confirmation exactly when the selected inferior's slot
\* holds an analyzer whose is_valid() is true.  With an invalid analyzer it
\* runs analyze() on that analyzer, asks nothing and calls no detector; with
\* a valid one it runs analyze() only on the answer "y" or "Y", and any other
\* answer leaves the map, the validity flags and the commands as they were.
C8_AsksIffValidAnalyzer ==
    [][(out'.op = "heap analyze" /\ ~out'.blocked) =>
          LET holds == inferior_to_analyzer_map[selected] = Analyzer
              valid == holds /\ is_valid(selected)
              stale == holds /\ ~is_valid(selected)
          IN  /\ out'.prompted <=> valid
              /\ stale =>
                    /\ out'.analyzed
                    /\ out'.invoked = << >>
                    /\ inferior_to_analyzer_map' = inferior_to_analyzer_map
                    /\ _is_valid' = [_is_valid EXCEPT ![selected] = TRUE]
              /\ valid =>
                    /\ out'.invoked = << >>
                    /\ out'.analyzed <=> out'.response \in {"y", "Y"}
                    /\ inferior_to_analyzer_map' = inferior_to_analyzer_map
                    /\ _is_valid' = _is_valid
                    /\ commands' = commands]_vars

\* C8's case: the command asked, the operator did not answer yes, and
\* analyze() did not run.
C8_Witness ==
    /\ out.op = "heap analyze"
    /\ out.prompted
    /\ out.response \notin {"y", "Y"}
    /\ ~out.analyzed

\* C9: the slot of an inferior that was never analyzed (no key, or None) is
\* left that way by every step but a detect_heap that runs its detectors
\* while the inferior is selected; until then get_current_analyzer returns
\* None for it; and "heap info", on_inferior_change and a resume notification
\* call no detector.
C9_UnanalyzedUntilDetectHeap ==
    [][/\ \A t \in Inferiors :
             (/\ inferior_to_analyzer_map[t] \in {NoKey, None}
              /\ inferior_to_analyzer_map'[t] \notin {NoKey, None}) =>
                 /\ out'.op \in {"heap analyze", "detect_heap"}
                 /\ out'.target = t
                 /\ selected = t
                 /\ out'.invoked # << >>
       /\ (/\ out'.op = "heap info"
           /\ ~out'.blocked
           /\ inferior_to_analyzer_map[selected] \in {NoKey, None}) =>
                 /\ out'.result = None
                 /\ inferior_to_analyzer_map'[selected] = None
       /\ out'.op \in {"heap info", "on_inferior_change", "resume"} =>
                 out'.invoked = << >>]_vars

\* C9's case: get_current_analyzer has just returned None for the selected
\* inferior, which had no key before, while another inferior holds an
\* analyzer.
C9_Witness ==
    /\ out.op = "heap info"
    /\ out.result = None
    /\ out.target = selected
    /\ out.target > 1
    /\ \E t \in Inferiors : inferior_to_analyzer_map[t] = Analyzer

\* C10: a slot that is UnsupportedHeap or an analyzer is never None again and
\* its key never leaves the map, whichever operation runs.
C10_SlotNeverReverts ==
    [][\A t \in Inferiors :
          inferior_to_analyzer_map[t] \in {UnsupportedHeap, Analyzer} =>
              inferior_to_analyzer_map'[t] \in {UnsupportedHeap, Analyzer}]_vars

\* C10's case: get_current_analyzer has just run, through "heap info", for an
\* inferior whose slot is UnsupportedHeap.
C10_Witness ==
    /\ out.op = "heap info"
    /\ ~out.blocked
    /\ out.result = UnsupportedHeap
    /\ inferior_to_analyzer_map[out.target] = UnsupportedHeap

\* C11: a slot that is UnsupportedHeap stays so: every later "heap analyze"
\* for that inferior (run without argument, inferior running or a core) calls
\* no detector, asks nothing, leaves the slot UnsupportedHeap and leaves
\* exactly the base verb set registered.
C11_UnsupportedIsTerminal ==
    [][(/\ out'.op = "heap analyze"
        /\ ~out'.blocked
        /\ inferior_to_analyzer_map[selected] = UnsupportedHeap) =>
           /\ out'.invoked = << >>
           /\ ~out'.prompted
           /\ inferior_to_analyzer_map'[selected] = UnsupportedHeap
           /\ commands' = BaseVerbSet]_vars

\* C12: the watcher thread runs neither on_inferior_change, nor the query
\* for the selected inferior, nor a command registration: each of them runs
\* on gdb's main thread, on_inferior_change inside a check_for_change that
\* was posted with gdb.post_event.
C12_OnlyMainThreadCallsGdb ==
    out.op \in {"selected_inferior", "on_inferior_change", "heap analyze",
                "heap info"} => out.thread = "main"

\* The watcher's checks that are posted and not yet begun, or begun and not
\* yet returned.
ChecksOutstanding == posted + (IF m_pc = "idle" THEN 0 ELSE 1)

\* C13: the watcher posts a check only after the check it posted before has
\* returned, on_inferior_change included: in every reachable state at most
\* one check is posted or running.
C13_AtMostOneCheckOutstanding == ChecksOutstanding <= 1

\* C14: a check in which reading the selected inferior or the callback
\* raises ends in its except clause: nothing propagates, gdb's main thread
\* is free again, the watcher is not stopped, and, however many checks fail,
\* the watcher is again and again at the head of its loop, where its next
\* step posts a further check.
C14_FailingCheckNeverStopsWatcher ==
    /\ [](out.op = "check_for_change" /\ out.raised # "none" =>
             m_pc = "idle" /\ w_pc \in {"loop", "wait"})
    /\ []<>(w_pc = "loop" /\ ~should_stop)

\* C14's case: a check has just failed while the selection differs from the
\* watcher's last_inferior.
C14_Witness ==
    /\ out.op = "check_for_change"
    /\ out.raised # "none"
    /\ selected # last_inferior
    /\ ~event_finished \/ posted > 0 \/ w_pc = "wait"

\* How often `callable` is in the callback list hc gives the hook of `hook`.
CountIn(hc, callable, hook) ==
    Cardinality({i \in 1 .. Len(hc[hook]) : hc[hook][i][1] = callable})

\* The callable has an entry in the registry's _callables_to_callbacks.
Subscribed(callable) == callables_to_callbacks[callable] # NoCallback

\* C15: connect adds the callable to the hook of every resume command, and a
\* disconnect of a callable connected once returns without error and leaves
\* it in none of those hooks.
C15_DisconnectRemovesFromEveryHook ==
    [][/\ out'.op = "connect" =>
             \A h \in ContinueEventSet :
                 CountIn(hook_callbacks', out'.target, h) =
                     CountIn(hook_callbacks, out'.target, h) + 1
       /\ (/\ out'.op = "disconnect"
           /\ Subscribed(out'.target)
           /\ \A h \in ContinueEventSet :
                  CountIn(hook_callbacks, out'.target, h) = 1) =>
             /\ out'.raised = "none"
             /\ \A h \in ContinueEventSet :
                    CountIn(hook_callbacks', out'.target, h) = 0]_vars

\* C16: disconnect of a callable that has no entry in the registry (never
\* connected, or its entry popped by an earlier disconnect) fails its
\* assertion and leaves the callback list of every hook as it was.
C16_DisconnectUnsubscribedFails ==
    [][(out'.op = "disconnect" /\ ~Subscribed(out'.target)) =>
           /\ out'.raised = "AssertionError"
           /\ hook_callbacks' = hook_callbacks]_vars

\* C16's case: disconnect has just failed for a callable that is in no hook,
\* while another callable is connected.
C16_Witness ==
    /\ out.op = "disconnect"
    /\ out.raised = "AssertionError"
    /\ \A h \in ContinueEventSet : Count(out.target, h) = 0
    /\ \E c \in Inferiors : Subscribed(c) /\ Count(c, "continue") > 0

\* C17: get_hook leaves one hook per command asked for: a command without a
\* hook gets one with an empty callback list, a command with a hook keeps it
\* with its callback list, no other hook changes; and when a hooked command
\* runs, each callback of its hook is called once.
C17_GetHookIdempotent ==
    [][/\ out'.op = "get_hook" =>
             /\ DOMAIN hook_callbacks' = DOMAIN hook_callbacks \cup {out'.response}
             /\ \A h \in DOMAIN hook_callbacks :
                    hook_callbacks'[h] = hook_callbacks[h]
             /\ out'.response \notin DOMAIN hook_callbacks =>
                    hook_callbacks'[out'.response] = << >>
       /\ out'.op = "resume" =>
             \E command \in ContinueEventSet :
                 /\ Len(out'.called) = Len(hook_callbacks[command])
                 /\ \A i \in 1 .. Len(out'.called) :
                        out'.called[i] = hook_callbacks[command][i][1]]_vars

\* C17's case: get_hook has just been called for a command whose hook has
\* callbacks.
C17_Witness ==
    /\ out.op = "get_hook"
    /\ out.response \in ContinueEventSet
    /\ Len(hook_callbacks[out.response]) > 0

\* How often the hook that ran last called `callable`.
TimesCalled(callable) ==
    Cardinality({i \in 1 .. Len(out.called) : out.called[i] = callable})

\* C18: when a hooked resume command runs, every callable that is connected
\* is called exactly once, whatever connects and disconnects came before.
C18_SubscribedCalledOnce ==
    out.op = "resume" =>
        \A c \in Inferiors : Subscribed(c) => TimesCalled(c) = 1

C20_GateOutcomePerPackage ==
    [][out'.gate # "none" =>
          \A name \in GatedCommands :
              /\ debuginfo_cache[name] = Found => out'.gate = "invoke"
              /\ debuginfo_cache[name] = Missing =>
                     out'.gate = "Missing debuginfo"]_vars

C22_NoKeyIsUnanalyzed ==
    [][/\ (/\ out'.op = "heap info" /\ ~out'.blocked
           /\ inferior_to_analyzer_map[selected] \in {NoKey, None}) =>
              out'.result = None
       /\ (/\ out'.op = "on_inferior_change"
           /\ inferior_to_analyzer_map[out'.target] \in {NoKey, None}) =>
              /\ out'.result = None
              /\ commands' = BaseVerbSet
       /\ (/\ out'.op = "detect_heap"
           /\ inferior_to_analyzer_map[selected] \in {NoKey, None}) =>
              /\ out'.raised = "none"
              /\ out'.invoked # << >>
              /\ inferior_to_analyzer_map'[selected] = out'.result
              /\ out'.result \in {UnsupportedHeap, Analyzer}]_vars

\* A step of on_inferior_change: the check on gdb's main thread leaves the
\* callback, or moves on within it.
OicStep == m_pc \in {"callback", "lookup"} /\ m_pc' # m_pc

\* C23: on_inferior_change changes only the registered commands and may give
\* the new inferior a key with slot None.  It calls no detector and no
\* analyze(); every slot that has a key keeps its value and every validity
\* flag and hook list stays as it is.  When it returns, the commands are
\* the basic ones plus, for an inferior whose slot is an analyzer, the
\* commands of that same analyzer.
C23_InferiorChangeOnlyRebuildsCommands ==
    [][OicStep =>
          /\ out'.invoked = << >>
          /\ ~out'.analyzed
          /\ _is_valid' = _is_valid
          /\ hook_callbacks' = hook_callbacks
          /\ \A t \in Inferiors :
                \/ inferior_to_analyzer_map'[t] = inferior_to_analyzer_map[t]
                \/ /\ t = current_inferior
                   /\ inferior_to_analyzer_map[t] = NoKey
                   /\ inferior_to_analyzer_map'[t] = None
          /\ out'.op = "on_inferior_change" =>
                commands' = BaseVerbSet \cup
                    (IF inferior_to_analyzer_map[out'.target] = Analyzer
                     THEN VerbsOf(out'.target) ELSE {})]_vars

\* on_inferior_change has just returned for an inferior that was analyzed
\* earlier and resumed since: its commands are back, its analyzer still
\* out of date.
C23_Witness ==
    /\ out.op = "on_inferior_change"
    /\ out.result = Analyzer
    /\ ~_is_valid[out.target]
    /\ commands = BaseVerbSet \cup VerbsOf(out.target)

\* C24: a continue command's hook run changes analyzer validity flags only,
\* and only to invalid: every inferior's slot and the registered commands
\* are after it what they were before it.
C24_ResumeOnlyInvalidates ==
    [][out'.op = "resume" =>
          /\ inferior_to_analyzer_map' = inferior_to_analyzer_map
          /\ commands' = commands
          /\ \A t \in Inferiors : _is_valid'[t] => _is_valid[t]]_vars

\* A continue command has just made the selected inferior's analyzer
\* invalid, and that analyzer's commands are registered.
C24_Witness ==
    /\ out.op = "resume"
    /\ out.called # << >>
    /\ inferior_to_analyzer_map[selected] = Analyzer
    /\ ~_is_valid[selected]
    /\ VerbsOf(selected) \subseteq commands

\* C25: a watcher given a stop_event that is set leaves its loop, provided
\* gdb's main thread runs each check it posted; once it has left the loop it
\* posts no check; a watcher given no stop_event never leaves the loop.
C25_StopEventEndsTheWatcher ==
    /\ [](stop_event = "set" => <>(w_pc = "stopped"))
    /\ [][w_pc = "stopped" => w_pc' = "stopped" /\ posted' <= posted]_vars
    /\ [](stop_event = "none" => w_pc # "stopped")

\* The watcher's thread started and has left its loop after its stop_event
\* was set; no check is queued or running.
C25_Witness ==
    /\ w_pc = "stopped"
    /\ stop_event = "set"
    /\ posted = 0
    /\ m_pc = "idle"
    /\ last_inferior # 0

\* C26: if from some point on the selected inferior no longer changes, and
\* gdb's main thread runs the checks the watcher posts, then from some point
\* on the registered allocator commands are exactly those of the analyzer in
\* the selected inferior's slot (none if the slot holds no analyzer),
\* whatever selections, polls and 'heap analyze' commands came before.
C26_VerbsSettleOnSelectedSlot ==
    <>[][selected' = selected]_vars =>
        <>[](ActiveAllocatorVerbs =
                IF inferior_to_analyzer_map[selected] = Analyzer
                THEN VerbsOf(selected) ELSE {})

\* C27: "heap analyze" returns without an exception when the selected
\* inferior's detection yields UnsupportedHeap or its slot already holds
\* UnsupportedHeap: it calls no method on that marker.
C27_UnsupportedHeapIsNotCalled ==
    (/\ out.op = "heap analyze"
     /\ ~out.blocked
     /\ out.result = UnsupportedHeap) => out.raised = "none"

\* C28: when a detector raises an exception that detect_heap does not catch,
\* the exception leaves detect_heap (and "heap analyze", if it made the call)
\* at that detector: no later detector is called, the selected inferior's
\* slot is None afterwards, no other slot, no command, no validity flag and
\* no hook changes, and a detect_heap that follows passes its subscript and
\* its assertion and calls the detectors.
C28_UncaughtDetectorErrorStoresNothing ==
    [][(/\ out'.invoked # << >>
        /\ out'.outcomes[out'.invoked[Len(out'.invoked)]] \notin NormalOutcomes) =>
          LET k == Len(out'.invoked) IN
          /\ out'.raised = out'.outcomes[out'.invoked[k]]
          /\ \A d \in 1 .. NumDetectors :
                out'.outcomes[d] \notin NormalOutcomes => out'.invoked[k] <= d
          /\ \A i \in 1 .. k - 1 :
                out'.outcomes[out'.invoked[i]] \in NormalOutcomes
          /\ inferior_to_analyzer_map[selected] \in {NoKey, None}
          /\ inferior_to_analyzer_map'[selected] = None
          /\ \A t \in Inferiors \ {selected} :
                inferior_to_analyzer_map'[t] = inferior_to_analyzer_map[t]
          /\ commands' = commands
          /\ _is_valid' = _is_valid
          /\ hook_callbacks' = hook_callbacks
          /\ DetectorsAsked(inferior_to_analyzer_map')]_vars

\* detect_heap has just been left by the exception of its second detector,
\* the first having declined, while the commands of another inferior's
\* analyzer are registered.
C28_Witness ==
    /\ out.op = "detect_heap"
    /\ out.raised = "Error"
    /\ Len(out.invoked) = 2
    /\ inferior_to_analyzer_map[selected] = None
    /\ ActiveAllocatorVerbs # {}

\* C29: last_inferior[0] is assigned by a check only when its callback has
\* returned, and then to the inferior the callback was called for; a check
\* that ends in its except clause, the selection read or the callback having
\* raised, leaves it as it was; and a check that reads a selected inferior
\* different from last_inferior[0] calls the callback for that inferior,
\* whatever the checks before it did.
C29_LastInferiorFollowsTheCallback ==
    [][/\ last_inferior' # last_inferior =>
             \/ w_pc = "start"
             \/ /\ out'.op = "on_inferior_change"
                /\ out'.raised = "none"
                /\ last_inferior' = out'.target
       /\ (out'.op = "check_for_change" /\ out'.raised # "none") =>
             last_inferior' = last_inferior
       /\ (m_pc = "read" /\ m_pc' # "read" /\ out'.raised = "none"
           /\ selected # last_inferior) =>
             /\ m_pc' = "callback"
             /\ current_inferior' = selected]_vars

\* A check's callback has just raised after it registered the basic commands:
\* the selected inferior has an analyzer whose commands are not registered,
\* last_inferior[0] is still the inferior selected before, and the watcher
\* has posted the next check.
C29_Witness ==
    /\ out.op = "check_for_change"
    /\ out.raised # "none"
    /\ out.target = selected
    /\ last_inferior \notin {0, selected}
    /\ inferior_to_analyzer_map[selected] = Analyzer
    /\ commands = BaseVerbSet
    /\ posted > 0

====
